---------------------------- MODULE Spec2Model ----------------------------
(***************************************************************************)
(* A model of the Pong physics (src/main.py: Paddle, Ball, the particle    *)
(* system) and of the terminal tic-tac-toe game (src/tictactoe.py).        *)
(*                                                                         *)
(* Numbers.  Pixel coordinates of a pygame.Rect are integers.  Python      *)
(* floats (velocities, spin, particle ages and positions) are modelled as  *)
(* fixed-point decimals: the integer v stands for v / Scale.  A float      *)
(* multiplication is a multiplication followed by a rounding to the        *)
(* nearest representable value (Mul, RoundDiv); int() truncates toward     *)
(* zero (Trunc).  A draw of random.uniform / random.choice / random.random *)
(* is a nondeterministic choice from a small set.                          *)
(***************************************************************************)
EXTENDS Integers, Sequences, FiniteSets, TLC

VARIABLES
    paddle,               \* side -> [x, y, vel, target]  (Paddle.rect, .vel, ._target_vel)
    ball,                 \* [x, y, vx, vy, spin]         (Ball.rect, .vel, .spin)
    particles,            \* the trail particles (module-level list)
    explosion_particles,  \* the explosion particles (module-level list)
    ev,                   \* what the last operation did (observation only)
    lastBounce,           \* the paddle that bounced the ball last since its reset (observation only)
    steps,                \* number of operations performed (bounds the runs)
    tabuleiro,            \* the tic-tac-toe board of jogar(): nine cells
    jogador,              \* the player to move
    pc                    \* where jogar() waits: "jogada", "novamente", or "fim" (returned)

vars == <<paddle, ball, particles, explosion_particles, ev, lastBounce, steps,
          tabuleiro, jogador, pc>>

pongVars == <<paddle, ball, particles, explosion_particles, lastBounce, steps>>

tttVars == <<tabuleiro, jogador, pc>>

---------------------------------------------------------------------------
(* Configuration (src/main.py, lines 47-64) *)

WIDTH == 900
HEIGHT == 600
PADDLE_WIDTH == 16
PADDLE_HEIGHT == 110
BALL_SIZE == 18
PADDLE_SPEED == 7
BALL_SPEED == 5

\* One unit of a float is 1/Scale.
Scale == 1000

\* Float constants, in units of 1/Scale.
BALL_MASS == 600
PADDLE_MASS == 4000
BALL_MAX_SPEED == 14000
BALL_DRAG == 997
SPIN_FACTOR == 280
SPIN_DECAY == 960
BOUNCE_ELASTICITY == 1030
PADDLE_RECOIL == 2400
\* Paddle.inertia, set in Paddle.__init__
INERTIA == 600

---------------------------------------------------------------------------
(* Fixed-point arithmetic *)

Abs(n) == IF n < 0 THEN -n ELSE n

Sign(n) == IF n < 0 THEN -1 ELSE IF n > 0 THEN 1 ELSE 0

Min(a, b) == IF a < b THEN a ELSE b

Max(a, b) == IF a > b THEN a ELSE b

\* n / d rounded to the nearest integer (d > 0), halves away from zero.
RoundDiv(n, d) ==
    IF n >= 0 THEN (n + d \div 2) \div d
    ELSE -(((-n) + d \div 2) \div d)

\* The float product a * b of two fixed-point values.
Mul(a, b) == RoundDiv(a * b, Scale)

\* The float quotient a / b of two fixed-point values (b # 0).
Div(a, b) ==
    IF b > 0 THEN RoundDiv(a * Scale, b) ELSE RoundDiv(-(a * Scale), -b)

\* Python's int(v) of a float: truncation toward zero.
Trunc(v) == IF v >= 0 THEN v \div Scale ELSE -((-v) \div Scale)

\* An integer as a float.
ToFloat(n) == n * Scale

---------------------------------------------------------------------------
(* Bounds of the model *)

\* The distance of a paddle from its side wall (Paddle's constructor argument x).
PaddleMargin == 30
\* Operations in a run of the paddle specification.
MaxPaddleSteps == 3
\* A move, or a recoil, larger than the playfield, in pixels per call.
BigDy == 650
\* Ticks (Ball.update or Ball.reset calls) in a run of the ball specification.
MaxTicks == 3

Sides == {"L", "R"}

PaddleX(s) == IF s = "L" THEN PaddleMargin ELSE WIDTH - PaddleMargin - PADDLE_WIDTH

NoEvent == [op |-> "init"]

---------------------------------------------------------------------------
(* Tic-tac-toe (src/tictactoe.py) *)

\* tabuleiro = [str(i) for i in range(1, 10)]
TabuleiroNovo == <<"1", "2", "3", "4", "5", "6", "7", "8", "9">>

\* the game is not running
TTTIdle == tabuleiro = TabuleiroNovo /\ jogador = "X" /\ pc = "fim"

\* the lines typed at the prompt of solicitar_jogada, after strip()
Jogadas == {"1", "2", "3", "4", "5", "6", "7", "8", "9", "0", "10", "-1", "x", "", "q", "Q",
            "sair"}

\* str.lower() on the lines typed
Lower(t) == IF t = "Q" THEN "q" ELSE IF t = "S" THEN "s" ELSE t

\* the lines int() accepts, and their values
Inteiros ==
    { <<"0", 0>>, <<"1", 1>>, <<"2", 2>>, <<"3", 3>>, <<"4", 4>>, <<"5", 5>>, <<"6", 6>>,
      <<"7", 7>>, <<"8", 8>>, <<"9", 9>>, <<"10", 10>>, <<"-1", -1>> }

\* int(pos) raises ValueError on the line t
ValueError(t) == \A e \in Inteiros : e[1] # t

\* int(pos) on a line it accepts
ParseInt(t) == (CHOOSE e \in Inteiros : e[1] = t)[2]

Linhas == << <<0, 1, 2>>, <<3, 4, 5>>, <<6, 7, 8>>,
             <<0, 3, 6>>, <<1, 4, 7>>, <<2, 5, 8>>,
             <<0, 4, 8>>, <<2, 4, 6>> >>

\* tab[i] of the Python list, i from 0
Casa(tab, i) == tab[i + 1]

\* vencedor(tab): "X", "O", "Empate" or "None"
RECURSIVE VencedorFrom(_, _)
VencedorFrom(tab, k) ==
    IF k > Len(Linhas)
    THEN IF \A i \in 0..8 : Casa(tab, i) \in {"X", "O"} THEN "Empate" ELSE "None"
    ELSE LET a == Linhas[k][1]
             b == Linhas[k][2]
             c == Linhas[k][3]
         IN  IF Casa(tab, a) = Casa(tab, b) /\ Casa(tab, b) = Casa(tab, c)
                /\ Casa(tab, a) \in {"X", "O"}
             THEN Casa(tab, a)
             ELSE VencedorFrom(tab, k + 1)

\* vencedor(tab) without the test of the full board
VencedorSemEmpate(tab) ==
    IF VencedorFrom(tab, 1) = "Empate" THEN "None" ELSE VencedorFrom(tab, 1)

Vencedor(tab) == VencedorFrom(tab, 1)

\* one pass of the loop of solicitar_jogada without the test of the occupied cell
SolicitarSemOcupada(t, tab) ==
    IF Lower(t) \in {"q", "quit", "sair"} THEN [ret |-> "None"]
    ELSE IF ValueError(t) THEN [ret |-> "again"]
    ELSE LET pos == ParseInt(t)
         IN  IF pos < 1 \/ pos > 9 THEN [ret |-> "again"]
             ELSE [ret |-> "idx", idx |-> pos - 1]

\* one pass of the loop of solicitar_jogada(jogador, tab) on the line t: the index
\* returned, None (quit), or the loop asks again
Solicitar(t, tab) ==
    IF Lower(t) \in {"q", "quit", "sair"} THEN [ret |-> "None"]
    ELSE IF ValueError(t) THEN [ret |-> "again"]
    ELSE LET pos == ParseInt(t)
         IN  IF pos < 1 \/ pos > 9 THEN [ret |-> "again"]
             ELSE IF Casa(tab, pos - 1) \in {"X", "O"} THEN [ret |-> "again"]
             ELSE [ret |-> "idx", idx |-> pos - 1]

---------------------------------------------------------------------------
(* Paddle (src/main.py, lines 298-324) *)

\* Paddle.__init__(x, y)
NewPaddle(x, y) == [x |-> x, y |-> y, vel |-> 0, target |-> 0]

\* rect.centery of a paddle
PaddleCenterY(p) == p.y + PADDLE_HEIGHT \div 2

\* Paddle.move(dy) with the clamp of the downward branch left out
PaddleMoveNoClamp(p, dy) ==
    LET v == Mul(p.vel, INERTIA) + Mul(dy, Scale - INERTIA)
    IN  [p EXCEPT !.target = dy, !.vel = v,
                  !.y = IF v < 0 THEN Max(p.y + Trunc(v), 0) ELSE p.y + Trunc(v)]

\* Paddle.move(dy)
PaddleMove(p, dy) ==
    LET v == Mul(p.vel, INERTIA) + Mul(dy, Scale - INERTIA)
    IN  [p EXCEPT !.target = dy, !.vel = v,
                  !.y = IF v < 0 THEN Max(p.y + Trunc(v), 0)
                        ELSE Min(p.y + Trunc(v), HEIGHT - PADDLE_HEIGHT)]

\* Paddle.apply_recoil(impulse)
PaddleRecoil(p, impulse) == [p EXCEPT !.vel = p.vel + impulse]

\* Paddle.ai_move(target_y)
PaddleAiMove(p, target_y) ==
    LET center == PaddleCenterY(p)
    IN  IF center < target_y THEN PaddleMove(p, ToFloat(PADDLE_SPEED))
        ELSE IF center > target_y THEN PaddleMove(p, -ToFloat(PADDLE_SPEED))
        ELSE PaddleMove(p, 0)


---------------------------------------------------------------------------
(* pygame.Rect of the ball: top-left corner (x, y), size BALL_SIZE *)

BallLeft(b) == b.x
BallRight(b) == b.x + BALL_SIZE
BallTop(b) == b.y
BallBottom(b) == b.y + BALL_SIZE
BallCenterX(b) == b.x + BALL_SIZE \div 2
BallCenterY(b) == b.y + BALL_SIZE \div 2

PaddleLeft(p) == p.x
PaddleRight(p) == p.x + PADDLE_WIDTH

\* Rect.colliderect: the two rectangles share an area (touching edges do not count)
Collide(b, p) ==
    /\ b.x < p.x + PADDLE_WIDTH
    /\ b.y < p.y + PADDLE_HEIGHT
    /\ b.x + BALL_SIZE > p.x
    /\ b.y + BALL_SIZE > p.y

---------------------------------------------------------------------------
(* Ball (src/main.py, lines 332-410) *)

\* random.choice([-1, 1]) * random.uniform(2, 4)
ResetVys == {-4000, -2000, 2000, 4000}

\* the serve directions of reset(direction); 0 stands for None
Directions == {-1, 0, 1}

\* self.rect.center = (cx, cy)
SetCenter(b, cx, cy) == [b EXCEPT !.x = cx - BALL_SIZE \div 2, !.y = cy - BALL_SIZE \div 2]

\* Ball.reset with the rect centred on (WIDTH // 2, WIDTH // 2), as __init__ builds it
BallResetOffCentre(b, direction, vy, flip) ==
    LET vx == IF direction = 0 THEN ToFloat(BALL_SPEED) ELSE ToFloat(BALL_SPEED) * direction
    IN  [SetCenter(b, WIDTH \div 2, WIDTH \div 2) EXCEPT
            !.vx = IF direction = 0 /\ flip THEN -vx ELSE vx,
            !.vy = vy, !.spin = 0]

\* Ball.reset(direction): vy is the random vertical velocity, flip the outcome of
\* random.random() < 0.5
BallReset(b, direction, vy, flip) ==
    LET vx == IF direction = 0 THEN ToFloat(BALL_SPEED) ELSE ToFloat(BALL_SPEED) * direction
    IN  [SetCenter(b, WIDTH \div 2, HEIGHT \div 2) EXCEPT
            !.vx = IF direction = 0 /\ flip THEN -vx ELSE vx,
            !.vy = vy, !.spin = 0]

\* Ball.__init__: the rect, then reset(), then spin = 0.0
NewBall(vy, flip) ==
    LET r == [x |-> WIDTH \div 2 - BALL_SIZE \div 2, y |-> WIDTH \div 2 - BALL_SIZE \div 2,
              vx |-> 0, vy |-> 0, spin |-> 0]
    IN  [BallReset(r, 0, vy, flip) EXCEPT !.spin = 0]

\* update, lines 349-351: the spin alters the vertical velocity and decays
ApplySpin(b) ==
    IF Abs(b.spin) > 1
    THEN [b EXCEPT !.vy = b.vy + Mul(b.spin, 120), !.spin = Mul(b.spin, SPIN_DECAY)]
    ELSE b

\* update, lines 354-355: the move by the truncated velocity
MoveBall(b) == [b EXCEPT !.x = b.x + Trunc(b.vx), !.y = b.y + Trunc(b.vy)]

\* update, lines 365-370
BounceTop(b) ==
    IF BallTop(b) <= 0
    THEN [b EXCEPT !.y = 0, !.vy = -b.vy, !.vx = Mul(b.vx, 1010), !.spin = Mul(b.spin, 600)]
    ELSE b

\* update, lines 371-376, with the clamp of the position left out
BounceBottomNoClamp(b) ==
    IF BallBottom(b) >= HEIGHT
    THEN [b EXCEPT !.vy = -b.vy, !.vx = Mul(b.vx, 1010), !.spin = Mul(b.spin, 600)]
    ELSE b

\* update, lines 371-376
BounceBottom(b) ==
    IF BallBottom(b) >= HEIGHT
    THEN [b EXCEPT !.y = HEIGHT - BALL_SIZE, !.vy = -b.vy, !.vx = Mul(b.vx, 1010),
                   !.spin = Mul(b.spin, 600)]
    ELSE b

\* update, lines 380-381 and 387-388: the spin a paddle gives
SpinFromPaddle(b, p) ==
    LET offset == Div(ToFloat(BallCenterY(b) - PaddleCenterY(p)),
                      Div(ToFloat(PADDLE_HEIGHT), ToFloat(2)))
    IN  Mul(p.vel, SPIN_FACTOR) + Mul(offset, Scale)

\* _bounce, lines 406 and 409-410: the horizontal velocities a bounce can leave
BounceVx(vx) ==
    LET r == Mul(-vx, BOUNCE_ELASTICITY)
    IN  IF r = 0 THEN {ToFloat(BALL_SPEED), -ToFloat(BALL_SPEED)} ELSE {r}

\* Ball._bounce(paddle, spin_input), nvx one of BounceVx(b.vx)
Bounce(b, p, spin_input, nvx) ==
    [b EXCEPT !.vx = nvx,
              !.vy = b.vy + Mul(Mul(p.vel, Div(PADDLE_MASS, PADDLE_MASS + BALL_MASS)), 900),
              !.spin = b.spin + Mul(spin_input, 900)]

\* math.copysign(1, v)
CopySign1(v) == IF v < 0 THEN -1 ELSE 1

\* update, lines 394-395
ApplyDrag(b) == [b EXCEPT !.vx = Mul(b.vx, BALL_DRAG), !.vy = Mul(b.vy, BALL_DRAG)]

\* the largest s in lo..hi with s * s <= n
RECURSIVE SqrtSearch(_, _, _)
SqrtSearch(n, lo, hi) ==
    IF lo >= hi THEN lo
    ELSE LET mid == (lo + hi + 1) \div 2
         IN  IF mid * mid <= n THEN SqrtSearch(n, mid, hi) ELSE SqrtSearch(n, lo, mid - 1)

\* the square root of n >= 0, rounded to the nearest integer
RoundSqrt(n) ==
    LET s == SqrtSearch(n, 0, 46340)
    IN  IF n - s * s > s THEN s + 1 ELSE s

\* math.hypot(vx, vy)
Hypot(vx, vy) == RoundSqrt(vx * vx + vy * vy)

\* update, lines 398-402, with the cap left out
NoCapSpeed(b) == b

\* update, lines 398-402: scale = BALL_MAX_SPEED / spd, vel *= scale.  A float keeps
\* the relative precision of the quotient, so the scaled component is rounded once.
CapSpeed(b) ==
    LET spd == Hypot(b.vx, b.vy)
    IN  IF spd > BALL_MAX_SPEED
        THEN [b EXCEPT !.vx = RoundDiv(b.vx * BALL_MAX_SPEED, spd),
                       !.vy = RoundDiv(b.vy * BALL_MAX_SPEED, spd)]
        ELSE b


---------------------------------------------------------------------------
(* Particles (src/main.py, lines 220-242 and 426-447).  A particle is      *)
(* [pos, vel, life, age]; its colour and size are only drawn.              *)

\* the random draws of the trail particle of Ball.update (lines 359-362):
\* the jitter of the position and of the velocity, and the lifetime
TrailDraws ==
    { [jx |-> -2000, jy |-> 2000, jvx |-> 800, jvy |-> -800, life |-> 300],
      [jx |-> 1500, jy |-> -500, jvx |-> -300, jvy |-> 600, life |-> 900] }

\* the trail particle Ball.update appends, b the ball after its move
TrailParticle(b, d) ==
    [pos |-> <<ToFloat(BallCenterX(b)) + d.jx, ToFloat(BallCenterY(b)) + d.jy>>,
     vel |-> <<Mul(-b.vx, 40) + d.jvx, Mul(-b.vy, 40) + d.jvy>>,
     life |-> d.life, age |-> 0]

---------------------------------------------------------------------------
(* Ball.update(left_paddle, right_paddle), lines 347-402 *)

\* The paddle test of line 379 without the test of the velocity
HitsLeftAnyDirection(b, p) == Collide(b, p)

\* The paddle test of line 379: an overlap and a velocity toward the left paddle
HitsLeft(b, p) == Collide(b, p) /\ b.vx < 0

\* The paddle test of line 386
HitsRight(b, p) == Collide(b, p) /\ b.vx > 0

BallUpdate ==
    /\ steps < MaxTicks
    /\ LET moved == MoveBall(ApplySpin(ball))
           b4 == BounceBottom(BounceTop(moved))
           hitL == HitsLeft(b4, paddle["L"])
       IN  \E d \in TrailDraws :
           \E vxL \in (IF hitL THEN BounceVx(b4.vx) ELSE {b4.vx}) :
             LET b5 == IF hitL
                       THEN Bounce(b4, paddle["L"], SpinFromPaddle(b4, paddle["L"]), vxL)
                       ELSE b4
                 pL == IF hitL
                       THEN PaddleRecoil(paddle["L"], -PADDLE_RECOIL * CopySign1(b5.vx))
                       ELSE paddle["L"]
                 hitR == HitsRight(b5, paddle["R"])
             IN  \E vxR \in (IF hitR THEN BounceVx(b5.vx) ELSE {b5.vx}) :
                   LET b6 == IF hitR
                             THEN Bounce(b5, paddle["R"], SpinFromPaddle(b5, paddle["R"]), vxR)
                             ELSE b5
                       pR == IF hitR
                             THEN PaddleRecoil(paddle["R"], PADDLE_RECOIL * CopySign1(b6.vx))
                             ELSE paddle["R"]
                   IN  /\ ball' = CapSpeed(ApplyDrag(b6))
                       /\ paddle' = [paddle EXCEPT !["L"] = pL, !["R"] = pR]
                       /\ particles' = Append(particles, TrailParticle(moved, d))
                       /\ ev' = [op |-> "update", pre |-> ball, moved |-> moved,
                                 hitTop |-> BallTop(moved) <= 0,
                                 hitBottom |-> BallBottom(BounceTop(moved)) >= HEIGHT,
                                 hitL |-> hitL, hitR |-> hitR,
                                 atL |-> b4, atR |-> b5, prePaddle |-> paddle,
                                 preBounce |-> lastBounce,
                                 capped |-> Hypot(ApplyDrag(b6).vx, ApplyDrag(b6).vy)
                                              > BALL_MAX_SPEED]
                       /\ lastBounce' = IF hitR THEN "R" ELSE IF hitL THEN "L" ELSE lastBounce
    /\ steps' = steps + 1
    /\ UNCHANGED tttVars
    /\ UNCHANGED explosion_particles

\* Ball.reset(direction)
BallResetCall(direction) ==
    /\ steps < MaxTicks
    /\ \E vy \in ResetVys, flip \in BOOLEAN :
         ball' = BallReset(ball, direction, vy, flip)
    /\ ev' = [op |-> "reset", direction |-> direction]
    /\ lastBounce' = "none"
    /\ steps' = steps + 1
    /\ UNCHANGED tttVars
    /\ UNCHANGED <<paddle, particles, explosion_particles>>

---------------------------------------------------------------------------
(* Paddle operations *)

\* the dy of a move: a key held (PADDLE_SPEED), no key, and moves beyond the playfield
MoveInputs == {-ToFloat(BigDy), -ToFloat(PADDLE_SPEED), 0, ToFloat(PADDLE_SPEED), ToFloat(BigDy)}

\* the impulses of apply_recoil: those of Ball.update and larger ones
RecoilInputs == {-ToFloat(BigDy), -PADDLE_RECOIL, PADDLE_RECOIL, ToFloat(BigDy)}

\* the targets of ai_move: above, inside and below the playfield
AiTargets == {-BigDy, PADDLE_HEIGHT \div 2, HEIGHT \div 2, HEIGHT + BigDy}

PaddleMoveCall(s, dy) ==
    /\ steps < MaxPaddleSteps
    /\ paddle' = [paddle EXCEPT ![s] = PaddleMove(paddle[s], dy)]
    /\ ev' = [op |-> "move", side |-> s, pre |-> paddle[s], arg |-> dy]
    /\ steps' = steps + 1
    /\ UNCHANGED tttVars
    /\ UNCHANGED <<ball, particles, explosion_particles, lastBounce>>

PaddleAiMoveCall(s, target_y) ==
    /\ steps < MaxPaddleSteps
    /\ paddle' = [paddle EXCEPT ![s] = PaddleAiMove(paddle[s], target_y)]
    /\ ev' = [op |-> "ai_move", side |-> s, pre |-> paddle[s], arg |-> target_y]
    /\ steps' = steps + 1
    /\ UNCHANGED tttVars
    /\ UNCHANGED <<ball, particles, explosion_particles, lastBounce>>

PaddleRecoilCall(s, impulse) ==
    /\ steps < MaxPaddleSteps
    /\ paddle' = [paddle EXCEPT ![s] = PaddleRecoil(paddle[s], impulse)]
    /\ ev' = [op |-> "apply_recoil", side |-> s, pre |-> paddle[s], arg |-> impulse]
    /\ steps' = steps + 1
    /\ UNCHANGED tttVars
    /\ UNCHANGED <<ball, particles, explosion_particles, lastBounce>>

---------------------------------------------------------------------------
(* The paddle specification: one paddle on each side, built inside the     *)
(* playfield, then any sequence of move, ai_move and apply_recoil calls.   *)

PaddleStartYs == {0, 200, HEIGHT - PADDLE_HEIGHT}

InitPaddle ==
    /\ \E ys \in [Sides -> PaddleStartYs] :
         paddle = [s \in Sides |-> NewPaddle(PaddleX(s), ys[s])]
    /\ ball = NewBall(2000, FALSE)
    /\ particles = <<>>
    /\ explosion_particles = <<>>
    /\ ev = NoEvent
    /\ lastBounce = "none"
    /\ steps = 0
    /\ TTTIdle

NextPaddle ==
    \/ \E s \in Sides, dy \in MoveInputs : PaddleMoveCall(s, dy)
    \/ \E s \in Sides, t \in AiTargets : PaddleAiMoveCall(s, t)
    \/ \E s \in Sides, i \in RecoilInputs : PaddleRecoilCall(s, i)

SpecPaddle == InitPaddle /\ [][NextPaddle]_vars

---------------------------------------------------------------------------
(* The ball specification: a ball just built, or a ball in the middle of a *)
(* rally (near a wall, near a paddle, in a corner, in mid-field), and the  *)
(* two paddles; then Ball.update and Ball.reset calls.                   *)

\* left edges: entering the left paddle, mid-field, entering the right paddle
BallXs == {PaddleX("L") + PADDLE_WIDTH - 1, WIDTH \div 2 - BALL_SIZE \div 2,
           PaddleX("R") - BALL_SIZE + 1}

\* top edges: next to the top wall, mid-field, next to the bottom wall
BallYs == {1, HEIGHT \div 2 - BALL_SIZE \div 2, HEIGHT - BALL_SIZE - 2}

BallVxs == {-ToFloat(BALL_SPEED), ToFloat(BALL_SPEED), 13900}

BallVys == {-3000, -1002, 3000}

BallSpins == {-10000, 0}

\* the paddles of a rally: pushed up against the top wall, at rest in the middle,
\* pushed down against the bottom wall, and thrown downward by a large move
RallyPaddles ==
    { [y |-> 0, vel |-> -ToFloat(PADDLE_SPEED)],
      [y |-> (HEIGHT - PADDLE_HEIGHT) \div 2, vel |-> 0],
      [y |-> HEIGHT - PADDLE_HEIGHT, vel |-> ToFloat(PADDLE_SPEED)],
      [y |-> (HEIGHT - PADDLE_HEIGHT) \div 2, vel |-> 30000] }

\* a ball of a rally: its speed is within the cap an update leaves
RallyBalls ==
    { b \in [x : BallXs, y : BallYs, vx : BallVxs, vy : BallVys, spin : BallSpins] :
        Hypot(b.vx, b.vy) <= BALL_MAX_SPEED }

InitBall ==
    /\ \E r \in RallyPaddles :
         paddle = [s \in Sides |->
                     [NewPaddle(PaddleX(s), r.y) EXCEPT !.vel = r.vel, !.target = r.vel]]
    /\ \/ ball \in RallyBalls /\ ev = NoEvent
       \/ ball \in {NewBall(vy, flip) : vy \in ResetVys, flip \in BOOLEAN}
          /\ ev = [op |-> "new"]
    /\ particles = <<>>
    /\ explosion_particles = <<>>
    /\ lastBounce = "none"
    /\ steps = 0
    /\ TTTIdle

NextBall ==
    \/ BallUpdate
    \/ \E d \in Directions : BallResetCall(d)

SpecBall == InitBall /\ [][NextBall]_vars

---------------------------------------------------------------------------
(* The particle system (src/main.py, lines 224-242 and 426-447) *)

\* Frames in a run of the particle specification.
MaxParticleSteps == 4
\* The largest burst of an explosion in a run.
MaxCount == 2

\* the frame times dt, in seconds: no time at all, a frame at 60 frames a second,
\* and a stalled frame
FrameTimes == {0, 17, 450}

\* the random draws of add_particle's defaults (lines 227-228): velocity and lifetime
ParticleDraws ==
    { [vel |-> <<-600, 600>>, life |-> 600], [vel |-> <<300, -200>>, life |-> 900] }

\* the random draws of one explosion particle (lines 238-242): cos and sin of the
\* angle times the speed, and the lifetime
ExplosionDraws ==
    { [vel |-> <<2500, 0>>, life |-> 900], [vel |-> <<-6010, 6010>>, life |-> 1600] }

\* the centres of an explosion: the last position of the ball
ExplosionCentres == { <<ToFloat(WIDTH), ToFloat(HEIGHT \div 2)>> }

\* add_particle(x, y, color, size, vel, life) with the defaults drawn as d
NewParticle(x, y, d) == [pos |-> <<x, y>>, vel |-> d.vel, life |-> d.life, age |-> 0]

\* add_explosion appending to the burst of before (the list is not cleared)
AddExplosionNoClear(old, cx, cy, draws) ==
    old \o [i \in 1..Len(draws) |->
              [pos |-> <<cx, cy>>, vel |-> draws[i].vel, life |-> draws[i].life, age |-> 0]]

\* add_explosion(cx, cy, color, count): draws holds the count random draws
AddExplosion(old, cx, cy, draws) ==
    [i \in 1..Len(draws) |->
        [pos |-> <<cx, cy>>, vel |-> draws[i].vel, life |-> draws[i].life, age |-> 0]]

\* update_particles, lines 429-433: a trail particle after one frame
AgeTrail(p, dt) ==
    [p EXCEPT !.age = p.age + dt,
              !.pos = <<p.pos[1] + Mul(p.vel[1] * 60, dt), p.pos[2] + Mul(p.vel[2] * 60, dt)>>,
              !.vel = <<p.vel[1], p.vel[2] + Mul(80, dt) * 60>>]

\* update_particles, lines 438-445: an explosion particle after one frame
AgeExplosion(p, dt) ==
    [p EXCEPT !.age = p.age + dt,
              !.pos = <<p.pos[1] + Mul(p.vel[1] * 60, dt), p.pos[2] + Mul(p.vel[2] * 60, dt)>>,
              !.vel = <<Mul(p.vel[1], 985), Mul(p.vel[2], 985) + Mul(450, dt) * 60>>]

\* list.remove(p): the list without its first element equal to p
RECURSIVE RemoveFirst(_, _)
RemoveFirst(list, p) ==
    IF list = <<>> THEN <<>>
    ELSE IF Head(list) = p THEN Tail(list)
    ELSE <<Head(list)>> \o RemoveFirst(Tail(list), p)

\* the loop "for p in explosion_particles[:]:", lines 437-447: i is the place in the
\* list of the next particle of the copy; remove() takes out the first equal
\* particle, which leaves the next particle of the copy at place i
RECURSIVE ExplosionLoop(_, _, _)
ExplosionLoop(list, i, dt) ==
    IF i > Len(list) THEN list
    ELSE LET p == AgeExplosion(list[i], dt)
             aged == [list EXCEPT ![i] = p]
         IN  IF p.age >= p.life
             THEN ExplosionLoop(RemoveFirst(aged, p), i, dt)
             ELSE ExplosionLoop(aged, i + 1, dt)

\* the loop "for p in particles:" over the list itself, not over a copy of it: the
\* particle that follows a removed one is skipped
RECURSIVE TrailLoopNoCopy(_, _, _)
TrailLoopNoCopy(list, i, dt) ==
    IF i > Len(list) THEN list
    ELSE LET p == AgeTrail(list[i], dt)
             aged == [list EXCEPT ![i] = p]
         IN  IF p.age >= p.life
             THEN TrailLoopNoCopy(RemoveFirst(aged, p), i + 1, dt)
             ELSE TrailLoopNoCopy(aged, i + 1, dt)

\* the loop "for p in particles[:]:", lines 428-435
RECURSIVE TrailLoop(_, _, _)
TrailLoop(list, i, dt) ==
    IF i > Len(list) THEN list
    ELSE LET p == AgeTrail(list[i], dt)
             aged == [list EXCEPT ![i] = p]
         IN  IF p.age >= p.life
             THEN TrailLoop(RemoveFirst(aged, p), i, dt)
             ELSE TrailLoop(aged, i + 1, dt)

AddParticleCall ==
    /\ steps < MaxParticleSteps
    /\ \E d \in ParticleDraws :
         particles' = Append(particles,
                             NewParticle(ToFloat(WIDTH \div 2), ToFloat(HEIGHT \div 2), d))
    /\ ev' = [op |-> "add_particle"]
    /\ steps' = steps + 1
    /\ UNCHANGED tttVars
    /\ UNCHANGED <<paddle, ball, explosion_particles, lastBounce>>

AddExplosionCall(count) ==
    /\ steps < MaxParticleSteps
    /\ \E c \in ExplosionCentres, draws \in [1..count -> ExplosionDraws] :
         /\ explosion_particles' = AddExplosion(explosion_particles, c[1], c[2], draws)
         /\ ev' = [op |-> "add_explosion", count |-> count, centre |-> c,
                   preTrail |-> particles, preExplosion |-> explosion_particles]
    /\ steps' = steps + 1
    /\ UNCHANGED tttVars
    /\ UNCHANGED <<paddle, ball, particles, lastBounce>>

UpdateParticlesCall(dt) ==
    /\ steps < MaxParticleSteps
    /\ particles' = TrailLoop(particles, 1, dt)
    /\ explosion_particles' = ExplosionLoop(explosion_particles, 1, dt)
    /\ ev' = [op |-> "update_particles", dt |-> dt,
              preTrail |-> particles, preExplosion |-> explosion_particles]
    /\ steps' = steps + 1
    /\ UNCHANGED tttVars
    /\ UNCHANGED <<paddle, ball, lastBounce>>

InitParticles ==
    /\ paddle = [s \in Sides |-> NewPaddle(PaddleX(s), (HEIGHT - PADDLE_HEIGHT) \div 2)]
    /\ ball = NewBall(2000, FALSE)
    /\ particles = <<>>
    /\ explosion_particles = <<>>
    /\ ev = [op |-> "new"]
    /\ lastBounce = "none"
    /\ steps = 0
    /\ TTTIdle

NextParticles ==
    \/ BallUpdate
    \/ AddParticleCall
    \/ \E count \in 0..MaxCount : AddExplosionCall(count)
    \/ \E dt \in FrameTimes : UpdateParticlesCall(dt)

SpecParticles == InitParticles /\ [][NextParticles]_vars

---------------------------------------------------------------------------
(* jogar() (src/tictactoe.py, lines 55-88) *)

\* the answers to "Jogar novamente? (s/n)", after strip()
Respostas == {"s", "S", "sim", "n", ""}

\* a line typed at the prompt of solicitar_jogada, and what jogar does with the index
Jogada(t) ==
    /\ pc = "jogada"
    /\ LET r == Solicitar(t, tabuleiro)
       IN  /\ ev' = [op |-> "jogada", text |-> t, ret |-> r.ret,
                     preTab |-> tabuleiro, preJogador |-> jogador]
           /\ IF r.ret = "again" THEN UNCHANGED tttVars
              ELSE IF r.ret = "None" THEN pc' = "fim" /\ UNCHANGED <<tabuleiro, jogador>>
              ELSE LET tab == [tabuleiro EXCEPT ![r.idx + 1] = jogador]
                       res == Vencedor(tab)
                   IN  /\ tabuleiro' = tab
                       /\ IF res \in {"X", "O", "Empate"}
                          THEN pc' = "novamente" /\ UNCHANGED jogador
                          ELSE /\ jogador' = IF jogador = "X" THEN "O" ELSE "X"
                               /\ UNCHANGED pc
    /\ UNCHANGED pongVars

\* the answer to "Jogar novamente?": a new round, or the end
Resposta(r) ==
    /\ pc = "novamente"
    /\ IF Lower(r) \in {"s", "sim", "y", "yes"}
       THEN tabuleiro' = TabuleiroNovo /\ jogador' = "X" /\ pc' = "jogada"
       ELSE pc' = "fim" /\ UNCHANGED <<tabuleiro, jogador>>
    /\ ev' = [op |-> "resposta", text |-> r]
    /\ UNCHANGED pongVars

InitTTT ==
    /\ paddle = [s \in Sides |-> NewPaddle(PaddleX(s), (HEIGHT - PADDLE_HEIGHT) \div 2)]
    /\ ball = NewBall(2000, FALSE)
    /\ particles = <<>>
    /\ explosion_particles = <<>>
    /\ lastBounce = "none"
    /\ steps = 0
    /\ ev = [op |-> "new"]
    /\ tabuleiro = TabuleiroNovo
    /\ jogador = "X"
    /\ pc = "jogada"

NextTTT ==
    \/ \E t \in Jogadas : Jogada(t)
    \/ \E r \in Respostas : Resposta(r)

SpecTTT == InitTTT /\ [][NextTTT]_vars

---------------------------------------------------------------------------
(* Claims about the paddle *)

\* C1: a paddle built inside the playfield stays within [0, HEIGHT - PADDLE_HEIGHT]
\* after any sequence of move, ai_move and apply_recoil calls, whatever their
\* arguments.
C1_PaddleInRange ==
    \A s \in Sides : paddle[s].y >= 0 /\ paddle[s].y <= HEIGHT - PADDLE_HEIGHT

\* a move beyond the playfield, after a recoil beyond it, was clamped to the bottom
C1_Witness ==
    /\ ev.op = "move"
    /\ ev.arg = ToFloat(BigDy)
    /\ ev.pre.vel > ToFloat(BigDy)
    /\ ev.pre.y + Trunc(paddle[ev.side].vel) > HEIGHT - PADDLE_HEIGHT
    /\ paddle[ev.side].y = HEIGHT - PADDLE_HEIGHT

---------------------------------------------------------------------------
(* Claims about the ball *)

SpeedSquared(b) == b.vx * b.vx + b.vy * b.vy

Opposite(a, b) == (a > 0 /\ b < 0) \/ (a < 0 /\ b > 0)

C3_FlippedAfterUpdate ==
    ev.op = "update" =>
        /\ BallTop(ball) >= 0 /\ BallBottom(ball) <= HEIGHT
        /\ BallBottom(ev.moved) > HEIGHT =>
              BallBottom(ball) = HEIGHT /\ Opposite(ev.pre.vy, ball.vy)
        /\ BallTop(ev.moved) < 0 =>
              BallTop(ball) = 0 /\ Opposite(ev.pre.vy, ball.vy)

\* C3, amended: after every update the ball is vertically inside the playfield, and
\* in a tick whose move takes an edge past its wall the edge ends exactly on the
\* wall; if no paddle bounce is resolved in that tick, the vertical velocity ends
\* with the sign opposite to the one the ball moved with, away from the wall.
C3_ClampedAndFlipped ==
    ev.op = "update" =>
        /\ BallTop(ball) >= 0 /\ BallBottom(ball) <= HEIGHT
        /\ BallBottom(ev.moved) > HEIGHT =>
              /\ BallBottom(ball) = HEIGHT
              /\ ~(ev.hitL \/ ev.hitR) => ball.vy < 0 /\ Opposite(ev.moved.vy, ball.vy)
        /\ BallTop(ev.moved) < 0 =>
              /\ BallTop(ball) = 0
              /\ ~(ev.hitL \/ ev.hitR) => ball.vy > 0 /\ Opposite(ev.moved.vy, ball.vy)

\* the move took the bottom edge past the wall, with no paddle in the way
C3_Witness ==
    /\ ev.op = "update"
    /\ BallBottom(ev.moved) > HEIGHT
    /\ ~(ev.hitL \/ ev.hitR)
    /\ BallBottom(ball) = HEIGHT

\* C4: a paddle collision clamps the ball's edge to the paddle's edge, so the ball
\* no longer overlaps the paddle at the end of the tick.
C4_ClampedToPaddle ==
    ev.op = "update" =>
        /\ ev.hitL => BallLeft(ball) = PaddleRight(paddle["L"]) /\ ~Collide(ball, paddle["L"])
        /\ ev.hitR => BallRight(ball) = PaddleLeft(paddle["R"]) /\ ~Collide(ball, paddle["R"])

\* C5: reset centres the ball on (WIDTH // 2, HEIGHT // 2), zeroes the spin and
\* serves at BALL_SPEED toward the direction asked for; with no direction both
\* signs can come out and the horizontal velocity is never 0.  A ball just built
\* is in the same state.
C5_ResetServes ==
    /\ ev.op \in {"reset", "new"} =>
          /\ BallCenterX(ball) = WIDTH \div 2
          /\ BallCenterY(ball) = HEIGHT \div 2
          /\ ball.spin = 0
          /\ Abs(ball.vx) = ToFloat(BALL_SPEED)
    /\ ev.op = "reset" /\ ev.direction # 0 => Sign(ball.vx) = ev.direction
    /\ steps < MaxTicks =>
          /\ ENABLED (BallResetCall(0) /\ ball'.vx = ToFloat(BALL_SPEED))
          /\ ENABLED (BallResetCall(0) /\ ball'.vx = -ToFloat(BALL_SPEED))

\* a reset without a direction, of a ball that was elsewhere, served to the left
C5_Witness ==
    /\ ev.op = "reset"
    /\ ev.direction = 0
    /\ ball.vx = -ToFloat(BALL_SPEED)
    /\ Len(particles) > 0

\* C8: a paddle bounce is resolved only on an overlap with a velocity toward the
\* paddle; it leaves a nonzero velocity away from the paddle, and no second bounce
\* against the same paddle is resolved until the other paddle bounces the ball.
C8_NoDoubleBounce ==
    /\ lastBounce = "L" => ball.vx > 0
    /\ lastBounce = "R" => ball.vx < 0
    /\ ev.op = "update" =>
          /\ ev.hitL => Collide(ev.atL, ev.prePaddle["L"]) /\ ev.atL.vx < 0
          /\ ev.hitR => Collide(ev.atR, ev.prePaddle["R"]) /\ ev.atR.vx > 0
          /\ ev.hitL /\ ~ev.hitR => ball.vx > 0
          /\ ev.hitR => ball.vx < 0
          /\ ev.preBounce = "L" => ~ev.hitL
          /\ ev.preBounce = "R" => ~ev.hitR

\* the tick after a bounce off the left paddle: the ball still overlaps the paddle
\* and is not bounced again
C8_Witness ==
    /\ ev.op = "update"
    /\ ev.preBounce = "L"
    /\ Collide(ev.atL, ev.prePaddle["L"])
    /\ ~ev.hitL

\* C9, for the ticks that resolve no paddle bounce: an update that resolves a top
\* collision ends with a vertical velocity into the playfield (vy >= 0), one that
\* resolves a bottom collision with vy <= 0; a ball resting on a wall with a small
\* inward velocity is not turned back toward the wall.
C9_EndsInward ==
    ev.op = "update" /\ ~(ev.hitL \/ ev.hitR) =>
        /\ ev.hitTop => ball.vy >= 0
        /\ ev.hitBottom => ball.vy <= 0

---------------------------------------------------------------------------
(* Claims about the particles *)

\* the places of the particles of pre that are younger than their lifetime after dt
Survivors(pre, dt) == { i \in 1..Len(pre) : pre[i].age + dt < pre[i].life }

\* post holds the survivors of pre, in their order, each older by dt
AgedAndFiltered(pre, post, dt) ==
    /\ \A k \in 1..Len(post) : post[k].age < post[k].life
    /\ Len(post) = Cardinality(Survivors(pre, dt))
    /\ \A i \in Survivors(pre, dt) :
          LET k == Cardinality({ j \in Survivors(pre, dt) : j <= i })
          IN  /\ post[k].age = pre[i].age + dt
              /\ dt > 0 => post[k].age > pre[i].age
              /\ post[k].life = pre[i].life

\* C6: an update_particles(dt) call with dt > 0 makes every particle older, and
\* leaves in neither list a particle with age >= life; only those are removed.
C6_AgedAndExpired ==
    ev.op = "update_particles" =>
        /\ AgedAndFiltered(ev.preTrail, particles, ev.dt)
        /\ AgedAndFiltered(ev.preExplosion, explosion_particles, ev.dt)

\* an update that removed an explosion particle in the tick its age reached its
\* lifetime exactly, kept another one, and aged trail particles
C6_Witness ==
    /\ ev.op = "update_particles"
    /\ ev.dt > 0
    /\ \E i \in 1..Len(ev.preExplosion) :
          ev.preExplosion[i].age + ev.dt = ev.preExplosion[i].life
    /\ Len(explosion_particles) > 0
    /\ Len(explosion_particles) < Len(ev.preExplosion)
    /\ Len(particles) > 0

\* C7: add_explosion(cx, cy, color, count) discards the explosion particles of
\* before and leaves exactly count particles, each at (cx, cy) with age 0; the
\* trail particles are unchanged.
C7_ExplosionReplaced ==
    ev.op = "add_explosion" =>
        /\ Len(explosion_particles) = ev.count
        /\ \A i \in 1..Len(explosion_particles) :
              explosion_particles[i].pos = ev.centre /\ explosion_particles[i].age = 0
        /\ particles = ev.preTrail

\* an explosion that replaced an older, aged burst while trail particles existed
C7_Witness ==
    /\ ev.op = "add_explosion"
    /\ ev.count = MaxCount
    /\ Len(ev.preExplosion) > 0
    /\ \E i \in 1..Len(ev.preExplosion) : ev.preExplosion[i].age > 0
    /\ Len(particles) > 0

---------------------------------------------------------------------------
(* Claims about tic-tac-toe *)

Marcas(tab, m) == Cardinality({ i \in 0..8 : Casa(tab, i) = m })

\* C10: a move is only written to a cell that holds neither X nor O; an occupied
\* or out-of-range choice leaves the board and the player to move unchanged; X
\* moves first and the accepted moves alternate, so the X marks number as many as
\* the O marks, or one more.
C10_MovesAlternate ==
    /\ Marcas(tabuleiro, "X") - Marcas(tabuleiro, "O") \in {0, 1}
    /\ pc = "jogada" => (jogador = "X" <=> Marcas(tabuleiro, "X") = Marcas(tabuleiro, "O"))
    /\ ev.op = "jogada" =>
          /\ \A i \in 0..8 :
                Casa(tabuleiro, i) # Casa(ev.preTab, i) =>
                    /\ Casa(ev.preTab, i) \notin {"X", "O"}
                    /\ Casa(tabuleiro, i) = ev.preJogador
                    /\ ~ValueError(ev.text) /\ ParseInt(ev.text) = i + 1
          /\ Cardinality({ i \in 0..8 : Casa(tabuleiro, i) # Casa(ev.preTab, i) }) <= 1
          /\ (/\ ~ValueError(ev.text)
              /\ LET n == ParseInt(ev.text)
                 IN  n < 1 \/ n > 9 \/ Casa(ev.preTab, n - 1) \in {"X", "O"})
                => tabuleiro = ev.preTab /\ jogador = ev.preJogador /\ pc = "jogada"

\* O chose the cell X holds, and nothing changed
C10_Witness ==
    /\ ev.op = "jogada"
    /\ ev.text = "5"
    /\ Casa(ev.preTab, 4) = "X"
    /\ ev.preJogador = "O"
    /\ tabuleiro = ev.preTab
    /\ jogador = "O"

\* the cells of the three rows, the three columns and the two diagonals
Trincas ==
    { {3 * r, 3 * r + 1, 3 * r + 2} : r \in 0..2 } \cup { {c, c + 3, c + 6} : c \in 0..2 }
        \cup { {0, 4, 8}, {2, 4, 6} }

\* some row, column or diagonal of tab holds three marks m
TemTrinca(tab, m) == \E t \in Trincas : \A i \in t : Casa(tab, i) = m

Cheio(tab) == \A i \in 0..8 : Casa(tab, i) \in {"X", "O"}

\* the boards of the game: vencedor reports X or O exactly on a line of that mark,
\* Empate exactly on a full board without a line, and nothing otherwise; a move is
\* asked for only while nothing is reported, the round is over once something is,
\* an accepted move was made on a board without a result and ends the round exactly
\* when it produces one, and a reported winner is the player who moved last
C11_Estado ==
    /\ \A m \in {"X", "O"} : Vencedor(tabuleiro) = m <=> TemTrinca(tabuleiro, m)
    /\ Vencedor(tabuleiro) = "Empate" <=>
          Cheio(tabuleiro) /\ ~TemTrinca(tabuleiro, "X") /\ ~TemTrinca(tabuleiro, "O")
    /\ Vencedor(tabuleiro) \in {"X", "O", "Empate", "None"}
    /\ pc = "jogada" => Vencedor(tabuleiro) = "None"
    /\ pc = "novamente" => Vencedor(tabuleiro) # "None"
    /\ Marcas(tabuleiro, "X") + Marcas(tabuleiro, "O") <= 9
    /\ pc = "jogada" => Marcas(tabuleiro, "X") + Marcas(tabuleiro, "O") < 9
    /\ Vencedor(tabuleiro) \in {"X", "O"} => Vencedor(tabuleiro) = jogador
    /\ (ev.op = "jogada" /\ ev.ret = "idx") =>
          /\ Vencedor(ev.preTab) = "None"
          /\ tabuleiro # ev.preTab
          /\ pc = "novamente" <=> Vencedor(tabuleiro) # "None"
          /\ pc = "jogada" <=> Vencedor(tabuleiro) = "None"
          /\ Vencedor(tabuleiro) \in {"X", "O"} => Vencedor(tabuleiro) = ev.preJogador

\* once a result is reported the board only changes by the start of a new round
C11_SemMaisJogadas ==
    Vencedor(tabuleiro) # "None" =>
        \/ tabuleiro' = tabuleiro /\ jogador' = jogador
        \/ tabuleiro' = TabuleiroNovo /\ jogador' = "X" /\ pc = "novamente"

\* C11: a round ends after an accepted move exactly when vencedor reports a result:
\* X or O if and only if some row, column or diagonal holds three of that mark,
\* Empate only on a full board without such a line, nothing otherwise; no further
\* move is accepted in a round after a result is reported, so a round ends within 9
\* accepted moves, and the reported winner is the player who made the last move.
C11_RoundEnds == []C11_Estado /\ [][C11_SemMaisJogadas]_vars

\* X completed a diagonal with the ninth accepted move of the round: the board is
\* full, X is reported and the round is over
C11_Witness ==
    /\ ev.op = "jogada"
    /\ ev.ret = "idx"
    /\ ev.preJogador = "X"
    /\ Cheio(tabuleiro)
    /\ Vencedor(tabuleiro) = "X"
    /\ pc = "novamente"

============================================================================
